---- MODULE Spec2Model ----
(***************************************************************************)
(* Tiled-inference operator chain of utils/chain_operators.py.             *)
(*                                                                         *)
(* Part 1 models the call protocol of the operator classes as a stack      *)
(* machine: every Python frame of an operator's __call__ is one frame of   *)
(* `stack`, the local variables of the frame are its fields, and the one   *)
(* instance field that is written after construction                      *)
(* (BranchingOperator.data) is the variable branchData.                    *)
(* Values are symbolic terms, so that two results are equal only when they *)
(* were computed by the same operations on the same inputs in the same     *)
(* order.                                                                  *)
(***************************************************************************)
EXTENDS Integers, Sequences, FiniteSets, TLC

\* ------------------------------------------------------------------ bounds
\* Number of operators in front of the FinalOperator.
MaxDepth == 3
\* Number of regions of an input image (the fan-out of a splitting stage).
MaxFan == 3
\* Largest batch size of a BatchingOperator.
MaxBatch == 2
\* Invocations of one pipeline instance, one after the other.
MaxCalls == 2
\* Threads that may call the pipeline instance.
NThreads == 2
\* Number of operators of the pipelines that two threads call at once.
MaxSharedDepth == 2

\* Largest width, height of an image given to a SplitRegionOperator.
MaxWidth == 33
MaxHeight == 2
\* Largest image_size (the side of a tile) of a SplitRegionOperator.
MaxTile == 3
\* Tiles in which the detector reports the object.
MaxReports == 2
\* The scores the detector gives.
Scores == {1, 2}

\* Largest width, height of an image given to a LongRectangleCropOperator.
MaxCropSide == 6
\* Largest box_height that the detector reports for a half.
MaxBoxHeight == 3

\* Largest width, height of an image given to a PaddingImageOperator.
MaxPadSide == 2
\* Largest padding_size of a PaddingImageOperator.
MaxPadding == 2
\* Largest number of boxes of a box set.
MaxBoxes == 2

\* Largest width, height of an image given to a ResizingImageOperator.
MaxResizeWidth == 11
MaxResizeHeight == 2
\* Largest image_max_size of a ResizingImageOperator.
MaxImageSize == 15

\* Largest width, height of the frame of the box sets that are merged.
MaxMergeWidth == 2
MaxMergeHeight == 1

\* BoxHeightPredictionOperator.__init__: min_boxes_count=1
min_boxes_count == 1

Threads == 1..NThreads

\* ------------------------------------------------------------------- terms
\* Every value is a record of the same shape: tag, a number, the box counts
\* of the regions of an image, and the sub-terms.
Term(tag, n, cs, kids) == [tag |-> tag, n |-> n, cs |-> cs, kids |-> kids]

\* Python's None
None == Term("None", 0, <<>>, <<>>)
\* An image; cs[j] is the number of boxes the detection model finds in its
\* j-th region.
Img(cs) == Term("img", 0, cs, <<>>)
\* A Python list
List(xs) == Term("list", 0, <<>>, xs)
\* A tuple (a, b)
Pair(a, b) == Term("pair", 0, <<>>, <<a, b>>)

RECURSIVE SumSeq(_)
SumSeq(s) == IF s = <<>> THEN 0 ELSE Head(s) + SumSeq(Tail(s))

\* The detection model collaborator: one DetectionSet per image, whose
\* number of boxes is determined by the image (deterministic).
Model(d) == Term("pred", SumSeq(d.cs), <<>>, <<d>>)

BoxCounts == 0..min_boxes_count

Images == UNION {{Img(cs) : cs \in [1..k -> BoxCounts]} : k \in 1..MaxFan}

\* --------------------------------------------------------------- pipelines
\* The operator classes. "Stage" is a ChainOperator subclass that maps one
\* image to one image (Padding, Resizing, ImgRescale); "Fan" one that maps an
\* image to a list of images and merges the list of results in backward
\* (LongRectangleCrop, SplitRegion).
Kinds == {"Stage", "Fan", "Split", "Batch", "Letter", "Branch", "BoxHeight"}

\* pipeline[k] is the class of the k-th operator; its next_operator is the
\* (k+1)-th, and the last one's next_operator is a FinalOperator.
KindAt(p, k) == IF k > Len(p) THEN "Final" ELSE p[k]

\* The type of the result of operators k.. of p on an input of type ty
\* ("I" one item, "L" a list), "bad" when an operator gets what it cannot
\* handle.
RECURSIVE ResultType(_, _, _)
ResultType(p, k, ty) ==
    LET kind == KindAt(p, k) IN
    CASE kind = "Final" -> ty
      [] kind = "Stage" ->
            IF ty = "I" /\ ResultType(p, k + 1, "I") # "bad" THEN "I" ELSE "bad"
      [] kind = "Fan" ->
            IF ty = "I" /\ ResultType(p, k + 1, "L") # "bad" THEN "I" ELSE "bad"
      [] kind = "Split" ->
            IF ty = "L" /\ ResultType(p, k + 1, "I") # "bad" THEN "L" ELSE "bad"
      [] kind = "Batch" ->
            IF ty = "L" /\ ResultType(p, k + 1, "L") = "L" THEN "L" ELSE "bad"
      [] kind = "Letter" ->
            IF ty = "L" /\ KindAt(p, k + 1) = "Final" THEN "L" ELSE "bad"
      [] kind = "Branch" ->
            IF ResultType(p, k + 1, ty) # "bad" THEN "I" ELSE "bad"
      [] kind = "BoxHeight" ->
            IF ty = "I" /\ KindAt(p, k + 1) = "Final" THEN "I" ELSE "bad"

PipelinesUpTo(d) ==
    {p \in UNION {[1..k -> Kinds] : k \in 1..d} : ResultType(p, 1, "I") # "bad"}

VARIABLES
    pipeline,    \* the classes of the pipeline's operators (construction)
    batch_size,  \* BatchingOperator.batch_size (construction)
    branchData,  \* branchData[k]: BranchingOperator.data of operator k
    stack,       \* stack[t]: the frames of thread t's running __call__s
    exc,         \* exc[t]: a NotEnoughBoxes is propagating in thread t
    outcome,     \* outcome[t]: how thread t's last invocation ended
    input,       \* input[t]: the argument of thread t's current invocation
    calls,       \* calls[t]: invocations thread t has started
    history,     \* history[t]: how thread t's earlier invocations ended
    log,         \* log[t]: the calls made in thread t's current invocation
    tile,        \* one __call__ of a SplitRegionOperator (Part 2)
    stage        \* one __call__ of another transform operator (Part 3)

vars == <<pipeline, batch_size, branchData, stack, exc, outcome, input, calls,
          history, log, tile, stage>>

\* No __call__ of a transform operator of Part 3 is running.
NoStage == [op |-> "none", pc |-> "none"]

\* The frame of a SplitRegionOperator.__call__: pc is the position in
\* ChainOperator.__call__, (width, height) the size of the image given,
\* image_size the operator's field, canvas the size of new_img, start_points
\* and start_point the addition that forward returns, object the box that the
\* detector finds, data what next_operator returns, all_predictions what
\* backward returns.
NoTile ==
    [pc |-> "none", width |-> 0, height |-> 0, image_size |-> 0,
     n_rows |-> 0, n_cols |-> 0, canvas |-> <<0, 0>>, start_points |-> <<>>,
     start_point |-> <<0, 0>>, object |-> <<0, 0, 0, 0>>, data |-> <<>>,
     all_predictions |-> [boxes |-> <<>>, labels |-> <<>>, scores |-> <<>>]]

Range(f) == {f[x] : x \in DOMAIN f}

\* ------------------------------------------------- the operators' methods
\* forward of a one-image stage: the transformed image (same regions) and
\* the stage's context.
StageForward(k, d) ==
    <<Term("fwd", k, d.cs, <<d>>), Term("ctx", k, <<>>, <<d>>)>>

\* forward of a splitting stage: one sub-image per region, in order, and the
\* stage's context (the start points).
FanForward(k, d) ==
    <<List([j \in 1..Len(d.cs) |-> Term("part", j, <<d.cs[j]>>, <<>>)]),
      Term("ctx", k, <<>>, <<d>>)>>

\* backward of a stage: a new value made of the downstream result and the
\* addition it is given.
StageBackward(k, r, a) == Term("bwd", k, <<>>, <<r, a>>)

\* LetterDetectionOperator.forward / backward
LetterForward(d) == <<List([i \in 1..Len(d.kids) |-> Model(d.kids[i])]), None>>

LetterBackward(r, a) == r

\* BoxHeightPredictionOperator.forward: predictions[0], None
BoxHeightForward(d) == <<Model(d), None>>

\* Mutant: the comparison is <= instead of <.
NotEnoughBoxesOrEqual(r) == r.n <= min_boxes_count

\* BoxHeightPredictionOperator.backward raises when this holds
NotEnoughBoxes(r) == r.n < min_boxes_count

\* ... and otherwise returns the prediction with 'box_height' set
BoxHeightBackward(r, a) == Term("box_height", r.n, <<>>, <<r>>)

\* BranchingOperator.forward returns (data, None) and stores data in self.data
BranchForward(d) == <<d, None>>

\* BranchingOperator.backward: branch_operator((self.data, data)); the join
\* function is symbolic.
BranchBackward(k, saved, r, a) == Term("join", k, <<>>, <<Pair(saved, r)>>)

\* utils.misc.split_sequence: contiguous groups of n items, in order, the last
\* one possibly shorter.
RECURSIVE split_sequence(_, _)
split_sequence(xs, n) ==
    IF xs = <<>> THEN <<>>
    ELSE IF Len(xs) <= n THEN <<xs>>
    ELSE <<SubSeq(xs, 1, n)>> \o split_sequence(SubSeq(xs, n + 1, Len(xs)), n)

\* ------------------------------------------------------------------ frames
ChainKinds == {"Stage", "Fan", "Letter", "Branch", "BoxHeight"}

\* A frame of operator k's __call__(data): its local variables.
NewFrame(k, d) ==
    [op |-> k, pc |-> "start", data |-> d, addition |-> None,
     i |-> 1, results |-> <<>>]

\* A call of operator k: "fwd" forward(d) returned (r, a); "bwd"
\* backward(d, a) returned r; "raise" backward(d, a) raised; "item" a
\* combinator called its next_operator on d.
Event(ev, k, d, a, r) == [ev |-> ev, op |-> k, d |-> d, a |-> a, r |-> r]

Top(t) == stack[t][Len(stack[t])]

Kind(t) == KindAt(pipeline, Top(t).op)

Running(t) == stack[t] # <<>> /\ ~exc[t]

ReplaceTop(stk, f) == [stk EXCEPT ![Len(stk)] = f]

Pop(stk) == SubSeq(stk, 1, Len(stk) - 1)

\* The batches of a BatchingOperator frame: list(split_sequence(data, batch_size))
Batches(f) == split_sequence(f.data.kids, batch_size)

\* Mutant: SplittingOperator puts each result in front of the earlier ones.
ResumePrepend(stk, val) ==
    LET f == stk[Len(stk)]
        kind == KindAt(pipeline, f.op)
    IN  CASE kind \in ChainKinds ->
               ReplaceTop(stk, [f EXCEPT !.data = val, !.pc = "back"])
          [] kind = "Split" ->
               ReplaceTop(stk, [f EXCEPT !.results = <<val>> \o @, !.i = @ + 1])
          [] kind = "Batch" ->
               ReplaceTop(stk, [f EXCEPT !.results = @ \o val.kids, !.i = @ + 1])

\* Mutant: BatchingOperator appends each group's result list as one element.
ResumeAppendGroup(stk, val) ==
    LET f == stk[Len(stk)]
        kind == KindAt(pipeline, f.op)
    IN  CASE kind \in ChainKinds ->
               ReplaceTop(stk, [f EXCEPT !.data = val, !.pc = "back"])
          [] kind = "Split" ->
               ReplaceTop(stk, [f EXCEPT !.results = Append(@, val), !.i = @ + 1])
          [] kind = "Batch" ->
               ReplaceTop(stk, [f EXCEPT !.results = Append(@, val), !.i = @ + 1])

\* The caller's frame (the top of stk) once the operator it called has
\* returned val.
Resume(stk, val) ==
    LET f == stk[Len(stk)]
        kind == KindAt(pipeline, f.op)
    IN  CASE kind \in ChainKinds ->
               \* data = self.next_operator(data)
               ReplaceTop(stk, [f EXCEPT !.data = val, !.pc = "back"])
          [] kind = "Split" ->
               \* results.append(self.next_operator(item))
               ReplaceTop(stk, [f EXCEPT !.results = Append(@, val), !.i = @ + 1])
          [] kind = "Batch" ->
               \* results += self.next_operator(batch)
               ReplaceTop(stk, [f EXCEPT !.results = @ \o val.kids, !.i = @ + 1])

\* The top frame of stk calls its next_operator on d. FinalOperator.__call__
\* returns its argument.
CallNext(stk, d) ==
    LET k == stk[Len(stk)].op IN
    IF KindAt(pipeline, k + 1) = "Final"
    THEN Resume(stk, d)
    ELSE Append(stk, NewFrame(k + 1, d))

\* The top frame of thread t returns val to its caller; the outermost one
\* returns to the caller of the pipeline.
Return(t, val) ==
    LET rest == Pop(stack[t]) IN
    IF rest = <<>>
    THEN /\ stack' = [stack EXCEPT ![t] = <<>>]
         /\ outcome' = [outcome EXCEPT ![t] = [status |-> "ok", val |-> val]]
    ELSE /\ stack' = [stack EXCEPT ![t] = Resume(rest, val)]
         /\ UNCHANGED outcome

\* ----------------------------------------------------------------- actions
NoOutcome == [status |-> "none", val |-> None]

Logged(t, e) == log' = [log EXCEPT ![t] = Append(@, e)]

\* The caller invokes the pipeline (its first operator) on x.
Invoke(t, x, quota) ==
    /\ stack[t] = <<>>
    /\ calls[t] < quota
    /\ stack' = [stack EXCEPT ![t] = <<NewFrame(1, x)>>]
    /\ exc' = [exc EXCEPT ![t] = FALSE]
    /\ outcome' = [outcome EXCEPT ![t] = NoOutcome]
    /\ input' = [input EXCEPT ![t] = x]
    /\ calls' = [calls EXCEPT ![t] = @ + 1]
    /\ history' = [history EXCEPT ![t] =
                      IF calls[t] = 0 THEN @ ELSE Append(@, outcome[t].status)]
    /\ log' = [log EXCEPT ![t] = <<>>]
    /\ UNCHANGED <<stage, tile, pipeline, batch_size, branchData>>

\* self.forward(data) of operator k
ForwardOf(k, d) ==
    LET kind == KindAt(pipeline, k) IN
    CASE kind = "Stage" -> StageForward(k, d)
      [] kind = "Fan" -> FanForward(k, d)
      [] kind = "Letter" -> LetterForward(d)
      [] kind = "Branch" -> BranchForward(d)
      [] kind = "BoxHeight" -> BoxHeightForward(d)

\* self.backward(data, addition) of operator k, when it returns
BackwardOf(k, r, a) ==
    LET kind == KindAt(pipeline, k) IN
    CASE kind = "Stage" -> StageBackward(k, r, a)
      [] kind = "Fan" -> StageBackward(k, r, a)
      [] kind = "Letter" -> LetterBackward(r, a)
      [] kind = "Branch" -> BranchBackward(k, branchData[k], r, a)
      [] kind = "BoxHeight" -> BoxHeightBackward(r, a)

\* Mutant: the context returned by forward is dropped (data, _ = ...).
AfterForwardDropped(f, fr) == [f EXCEPT !.data = fr[1], !.addition = None, !.pc = "wait"]

\* ChainOperator.__call__, line 23: data, addition = self.forward(data)
AfterForward(f, fr) == [f EXCEPT !.data = fr[1], !.addition = fr[2], !.pc = "wait"]

\* Mutant: BranchingOperator.forward keeps the input it saved first.
BranchSaveOnce(k, d) ==
    IF branchData[k] = None THEN [branchData EXCEPT ![k] = d] ELSE branchData

\* BranchingOperator.forward, line 272: self.data = data
BranchSave(k, d) == [branchData EXCEPT ![k] = d]

\* ChainOperator.__call__, lines 23-24: forward, then the call of
\* next_operator. BranchingOperator.forward also assigns self.data.
Forward(t) ==
    /\ Running(t)
    /\ Kind(t) \in ChainKinds
    /\ Top(t).pc = "start"
    /\ LET f == Top(t)
           fr == ForwardOf(f.op, f.data)
       IN  /\ stack' = [stack EXCEPT ![t] =
                           CallNext(ReplaceTop(stack[t], AfterForward(f, fr)), fr[1])]
           /\ branchData' = IF Kind(t) = "Branch"
                            THEN BranchSave(f.op, f.data)
                            ELSE branchData
           /\ Logged(t, Event("fwd", f.op, f.data, fr[2], fr[1]))
    /\ UNCHANGED <<stage, tile, pipeline, batch_size, exc, outcome, input, calls, history>>

Raises(f) == KindAt(pipeline, f.op) = "BoxHeight" /\ NotEnoughBoxes(f.data)

\* ChainOperator.__call__, line 25: return self.backward(data, addition)
Backward(t) ==
    /\ Running(t)
    /\ Kind(t) \in ChainKinds
    /\ Top(t).pc = "back"
    /\ ~Raises(Top(t))
    /\ LET f == Top(t) IN
       /\ Return(t, BackwardOf(f.op, f.data, f.addition))
       /\ Logged(t, Event("bwd", f.op, f.data, f.addition,
                           BackwardOf(f.op, f.data, f.addition)))
    /\ UNCHANGED <<stage, tile, pipeline, batch_size, branchData, exc, input, calls, history>>

\* Mutant: a SplittingOperator catches the exception of an item and goes on
\* with the next item.
UnwoundSkipItem(stk) ==
    LET rest == Pop(stk) IN
    IF rest # <<>> /\ KindAt(pipeline, rest[Len(rest)].op) = "Split"
    THEN [stack |-> ReplaceTop(rest, [rest[Len(rest)] EXCEPT !.i = @ + 1]),
          exc |-> FALSE]
    ELSE [stack |-> rest, exc |-> TRUE]

\* A thread in which an exception leaves the top frame: no operator has a try
\* statement, so the frame is gone, nothing more of it runs and the exception
\* goes on to the caller.
Unwound(stk) == [stack |-> Pop(stk), exc |-> TRUE]

Failed == [status |-> "NotEnoughBoxes", val |-> None]

Propagate(t) ==
    /\ stack' = [stack EXCEPT ![t] = Unwound(stack[t]).stack]
    /\ exc' = [exc EXCEPT ![t] = Unwound(stack[t]).exc]
    /\ outcome' = IF Unwound(stack[t]).stack = <<>>
                  THEN [outcome EXCEPT ![t] = Failed]
                  ELSE outcome

\* BoxHeightPredictionOperator.backward: raise NotEnoughBoxes()
RaiseNotEnoughBoxes(t) ==
    /\ Running(t)
    /\ Top(t).pc = "back"
    /\ Raises(Top(t))
    /\ Propagate(t)
    /\ Logged(t, Event("raise", Top(t).op, Top(t).data, Top(t).addition, None))
    /\ UNCHANGED <<stage, tile, pipeline, batch_size, branchData, input, calls, history>>

\* The exception leaves the next enclosing frame.
Unwind(t) ==
    /\ exc[t]
    /\ stack[t] # <<>>
    /\ Propagate(t)
    /\ UNCHANGED <<stage, tile, pipeline, batch_size, branchData, input, calls, history, log>>

\* SplittingOperator.__call__, lines 36-37: the loop body
SplitCall(t) ==
    /\ Running(t)
    /\ Kind(t) = "Split"
    /\ Top(t).i <= Len(Top(t).data.kids)
    /\ LET f == Top(t)
           item == f.data.kids[f.i]
       IN  /\ stack' = [stack EXCEPT ![t] = CallNext(stack[t], item)]
           /\ Logged(t, Event("item", f.op, item, None, None))
    /\ UNCHANGED <<stage, tile, pipeline, batch_size, branchData, exc, outcome, input, calls, history>>

\* SplittingOperator.__call__, line 38: return results
SplitReturn(t) ==
    /\ Running(t)
    /\ Kind(t) = "Split"
    /\ Top(t).i > Len(Top(t).data.kids)
    /\ Return(t, List(Top(t).results))
    /\ UNCHANGED <<stage, tile, pipeline, batch_size, branchData, exc, input, calls, history, log>>

\* BatchingOperator.__call__, lines 51-52: the loop body
BatchCall(t) ==
    /\ Running(t)
    /\ Kind(t) = "Batch"
    /\ Top(t).i <= Len(Batches(Top(t)))
    /\ LET f == Top(t)
           batch == List(Batches(f)[f.i])
       IN  /\ stack' = [stack EXCEPT ![t] = CallNext(stack[t], batch)]
           /\ Logged(t, Event("item", f.op, batch, None, None))
    /\ UNCHANGED <<stage, tile, pipeline, batch_size, branchData, exc, outcome, input, calls, history>>

\* BatchingOperator.__call__, line 53: return results
BatchReturn(t) ==
    /\ Running(t)
    /\ Kind(t) = "Batch"
    /\ Top(t).i > Len(Batches(Top(t)))
    /\ Return(t, List(Top(t).results))
    /\ UNCHANGED <<stage, tile, pipeline, batch_size, branchData, exc, input, calls, history, log>>

\* --------------------------------------------------------- specifications
InitRun ==
    /\ branchData = [k \in 1..Len(pipeline) |-> None]
    /\ stack = [t \in Threads |-> <<>>]
    /\ exc = [t \in Threads |-> FALSE]
    /\ outcome = [t \in Threads |-> NoOutcome]
    /\ input = [t \in Threads |-> None]
    /\ calls = [t \in Threads |-> 0]
    /\ history = [t \in Threads |-> <<>>]
    /\ log = [t \in Threads |-> <<>>]

\* One thread that invokes one pipeline instance MaxCalls times.
Init ==
    /\ pipeline \in PipelinesUpTo(MaxDepth)
    /\ batch_size \in IF "Batch" \in Range(pipeline) THEN 1..MaxBatch ELSE {1}
    /\ InitRun
    /\ tile = NoTile
    /\ stage = NoStage

Call == \E x \in Images : Invoke(1, x, MaxCalls)

Next ==
    \/ Call
    \/ Forward(1)
    \/ Backward(1)
    \/ RaiseNotEnoughBoxes(1)
    \/ Unwind(1)
    \/ SplitCall(1)
    \/ SplitReturn(1)
    \/ BatchCall(1)
    \/ BatchReturn(1)

Spec == Init /\ [][Next]_vars

\* Every thread invokes the same pipeline instance once, and the threads run
\* at the same time: a thread switch can fall between the forward and the
\* backward of a __call__ (they are separated by the call of next_operator).
InitShared ==
    /\ pipeline \in {p \in PipelinesUpTo(MaxSharedDepth) :
                        Range(p) \subseteq {"Stage", "Branch"}}
    /\ batch_size = 1
    /\ InitRun
    /\ tile = NoTile
    /\ stage = NoStage

CallOnce(t) == \E x \in Images : Invoke(t, x, 1)

NextShared ==
    \E t \in Threads :
        \/ CallOnce(t)
        \/ Forward(t)
        \/ Backward(t)

SpecShared == InitShared /\ [][NextShared]_vars

(***************************************************************************)
(* Part 2: SplitRegionOperator, the tiling of one image and the merge of   *)
(* the tiles' detections.                                                  *)
(***************************************************************************)

\* ------------------------------------------ Python floats (IEEE binary64)
\* gap_w and gap_h are floats and part_x = int(col * gap_w): the quotient and
\* the product are rounded to 53 significant bits (to nearest, ties to even)
\* before int() truncates. A positive float is [m, e]: m its 53 significant
\* bits, most significant first, and e the exponent of the last bit (the
\* value is m * 2^e); 0.0 is [m |-> <<>>, e |-> 0].
MantissaBits == 53
\* The arithmetic below works on 13 bits at a time.
LimbBits == 13

FZero == [m |-> <<>>, e |-> 0]

\* The k low bits of v, most significant first.
ToBits(v, k) == [i \in 1..k |-> (v \div 2^(k - i)) % 2]

\* The bits of a natural number below 2^30, most significant first (<<>> for 0).
IntBits(n) ==
    ToBits(n, CHOOSE L \in 0..30 : n < 2^L /\ (L = 0 \/ n >= 2^(L - 1)))

RECURSIVE BitsInt(_)
BitsInt(bs) ==
    IF bs = <<>> THEN 0 ELSE 2 * BitsInt(SubSeq(bs, 1, Len(bs) - 1)) + bs[Len(bs)]

\* bs + 1, one bit longer when all bits are 1
Inc(bs) ==
    LET Z == {i \in 1..Len(bs) : bs[i] = 0} IN
    IF Z = {} THEN <<1>> \o [i \in 1..Len(bs) |-> 0]
    ELSE LET p == CHOOSE i \in Z : \A i2 \in Z : i2 <= i IN
         [i \in 1..Len(bs) |-> IF i < p THEN bs[i] ELSE IF i = p THEN 1 ELSE 0]

\* Rounding to nearest, ties to even: bits are the significant bits of the
\* exact value, at least MantissaBits + 1 of them, e the exponent of the last
\* of them, sticky whether the exact value has further non-zero bits.
FRound(bits, e, sticky) ==
    LET drop == Len(bits) - MantissaBits
        m == SubSeq(bits, 1, MantissaBits)
        guard == bits[MantissaBits + 1]
        more == sticky \/ \E i \in (MantissaBits + 2)..Len(bits) : bits[i] = 1
        up == guard = 1 /\ (more \/ m[MantissaBits] = 1)
        m1 == IF up THEN Inc(m) ELSE m
    IN  IF Len(m1) > MantissaBits
        THEN [m |-> SubSeq(m1, 1, MantissaBits), e |-> e + drop + 1]
        ELSE [m |-> m1, e |-> e + drop]

\* The next cnt * LimbBits bits of the binary expansion of r / b
\* (0 <= r < b < 2^17), and the remainder left.
RECURSIVE FracBits(_, _, _)
FracBits(r, b, cnt) ==
    IF cnt = 0 THEN [bits |-> <<>>, r |-> r]
    ELSE LET t == r * 2^LimbBits
             rest == FracBits(t % b, b, cnt - 1)
         IN  [bits |-> ToBits(t \div b, LimbBits) \o rest.bits, r |-> rest.r]

\* bs without its leading zero bits
StripZeros(bs) ==
    LET first == CHOOSE i \in 1..Len(bs) : bs[i] = 1 /\ \A i2 \in 1..(i - 1) : bs[i2] = 0
    IN  SubSeq(bs, first, Len(bs))

\* a / b for integers 0 <= a < 2^30, 0 < b < 2^17 (Python's true division)
FDiv(a, b) ==
    IF a = 0 THEN FZero
    ELSE LET fb == FracBits(a % b, b, 6)
             bits == StripZeros(IntBits(a \div b) \o fb.bits)
         IN  FRound(bits, -(6 * LimbBits), fb.r # 0)

\* The bits of c * (the number with bits m) + carry, for 0 <= c < 2^17.
RECURSIVE MulBits(_, _, _)
MulBits(m, c, carry) ==
    IF Len(m) <= LimbBits THEN IntBits(c * BitsInt(m) + carry)
    ELSE LET t == c * BitsInt(SubSeq(m, Len(m) - LimbBits + 1, Len(m))) + carry IN
         MulBits(SubSeq(m, 1, Len(m) - LimbBits), c, t \div 2^LimbBits)
             \o ToBits(t, LimbBits)

\* c * x for an integer 0 <= c < 2^17 and a float x
FMul(c, x) ==
    IF c = 0 \/ x.m = <<>> THEN FZero
    ELSE LET prod == MulBits(x.m, c, 0) IN
         IF Len(prod) = MantissaBits THEN [m |-> prod, e |-> x.e]
         ELSE FRound(prod, x.e, FALSE)

\* int(x) for a float x >= 0 below 2^31
FInt(x) ==
    IF x.m = <<>> \/ MantissaBits + x.e <= 0 THEN 0
    ELSE BitsInt(SubSeq(x.m, 1, MantissaBits + x.e))

\* x < 1 for a float x >= 0
FLessOne(x) == x.m = <<>> \/ MantissaBits + x.e <= 0

\* x + 0.5 for a float x >= 1
FAddHalf(x) ==
    IF x.e >= 0
    THEN FRound(x.m \o [i \in 1..(x.e + 1) |-> IF i > x.e THEN 1 ELSE 0], -1, FALSE)
    ELSE LET k == -1 - x.e    \* the bits of x.m that weigh less than 1/2
             sum == Inc(SubSeq(x.m, 1, MantissaBits - k))
                        \o SubSeq(x.m, MantissaBits - k + 1, MantissaBits)
         IN  IF Len(sum) = MantissaBits THEN [m |-> sum, e |-> x.e]
             ELSE FRound(sum, x.e, FALSE)

\* math.ceil(x) for a float 0 <= x < 2^30
FCeil(x) ==
    IF x.m = <<>> THEN 0
    ELSE IF MantissaBits + x.e <= 0 THEN 1
    ELSE FInt(x) + (IF \E i \in (MantissaBits + x.e + 1)..MantissaBits : x.m[i] = 1
                    THEN 1 ELSE 0)

\* ------------------------------------------------- SplitRegionOperator
\* SplitRegionOperator.__init__: merge_iou_threshold=0.3, as a fraction
merge_iou_threshold == <<3, 10>>

Max(a, b) == IF a >= b THEN a ELSE b
Min(a, b) == IF a <= b THEN a ELSE b

\* The grid without the half tile: math.ceil(dimension / size) on each axis.
split_region_ceil(width, height, size) ==
    <<FCeil(FDiv(height, size)), FCeil(FDiv(width, size))>>

\* SplitRegionOperator.split_region: <<n_rows, n_cols>>
split_region(width, height, size) ==
    LET n_rows == FDiv(height, size)
        n_cols == FDiv(width, size)
    IN  <<FCeil(IF FLessOne(n_rows) THEN n_rows ELSE FAddHalf(n_rows)),
          FCeil(IF FLessOne(n_cols) THEN n_cols ELSE FAddHalf(n_cols))>>

\* forward: the width (height) of new_img, for n columns (rows)
big_img(n, dimension, size) == Max((n * size - dimension) \div 5 + dimension, size)

\* forward: gap_w (gap_h), for n columns (rows) on a canvas big wide (high)
gap(n, big, size) == IF n < 2 THEN FZero ELSE FDiv(big - size, n - 1)

\* forward: part_x of every column (part_y of every row)
part(n, big, size) ==
    LET g == gap(n, big, size) IN [col \in 1..n |-> FInt(FMul(col - 1, g))]

\* SplitRegionOperator.forward, for an image of width x height: the size of
\* new_img, and the addition (out_start_points, (x, y)) in row-major order.
SplitRegionForward(width, height, size) ==
    LET n == split_region(width, height, size)
        n_rows == n[1]
        n_cols == n[2]
        big_img_w == big_img(n_cols, width, size)
        big_img_h == big_img(n_rows, height, size)
        part_x == part(n_cols, big_img_w, size)
        part_y == part(n_rows, big_img_h, size)
    IN  [n_rows |-> n_rows, n_cols |-> n_cols,
         canvas |-> <<big_img_w, big_img_h>>,
         start_point |-> <<(big_img_w - width) \div 2, (big_img_h - height) \div 2>>,
         start_points |-> [i \in 1..(n_rows * n_cols) |->
                              <<part_x[((i - 1) % n_cols) + 1],
                                part_y[((i - 1) \div n_cols) + 1]>>]]

\* A box is <<xmin, ymin, xmax, ymax>>; a prediction holds parallel sequences.
NoBoxes == [boxes |-> <<>>, labels |-> <<>>, scores |-> <<>>]

\* utils.transforms.shift_coordinates: the boxes seen from the point (x, y)
shift_coordinates(boxes, x, y) ==
    IF boxes = <<>> THEN <<>>
    ELSE [i \in 1..Len(boxes) |->
             <<boxes[i][1] - x, boxes[i][2] - y, boxes[i][3] - x, boxes[i][4] - y>>]

Area(b) == (b[3] - b[1]) * (b[4] - b[2])

Intersection(a, b) ==
    LET w == Min(a[3], b[3]) - Max(a[1], b[1])
        h == Min(a[4], b[4]) - Max(a[2], b[2])
    IN  IF w > 0 /\ h > 0 THEN w * h ELSE 0

\* IoU(a, b) > threshold, for the threshold threshold[1] / threshold[2]
IoUExceeds(a, b, threshold) ==
    threshold[2] * Intersection(a, b)
        > threshold[1] * (Area(a) + Area(b) - Intersection(a, b))

\* The elements of s whose index is in keep, from index i on, in order.
RECURSIVE Selected(_, _, _)
Selected(s, keep, i) ==
    IF i > Len(s) THEN <<>>
    ELSE (IF i \in keep THEN <<s[i]>> ELSE <<>>) \o Selected(s, keep, i + 1)

\* utils.transforms.merge_prediction with additional_keys=('labels', 'scores'):
\* of two boxes, one of a and one of b, whose IoU exceeds the threshold only
\* the one of higher score stays, the one of a when the scores are equal.
merge_prediction(a, b, iou_threshold) ==
    LET Same(i, j) == IoUExceeds(a.boxes[i], b.boxes[j], iou_threshold)
        keepA == {i \in 1..Len(a.boxes) :
                     ~ \E j \in 1..Len(b.boxes) : Same(i, j) /\ b.scores[j] > a.scores[i]}
        keepB == {j \in 1..Len(b.boxes) :
                     ~ \E i \in 1..Len(a.boxes) : Same(i, j) /\ a.scores[i] >= b.scores[j]}
    IN  [boxes |-> Selected(a.boxes, keepA, 1) \o Selected(b.boxes, keepB, 1),
         labels |-> Selected(a.labels, keepA, 1) \o Selected(b.labels, keepB, 1),
         scores |-> Selected(a.scores, keepA, 1) \o Selected(b.scores, keepB, 1)]

\* The shift of backward's loop with the start point as it is returned by forward.
ShiftTileUnnegated(boxes, start_points) ==
    shift_coordinates(boxes, start_points[1], start_points[2])

\* backward: shift_coordinates(predictions['boxes'], -start_points[0], -start_points[1])
ShiftTile(boxes, start_points) ==
    shift_coordinates(boxes, -start_points[1], -start_points[2])

\* backward: the loop over zip(data, all_start_points), pairs lo..hi, entered
\* with all_predictions (which is None before pair 1).
RECURSIVE MergeTiles(_, _, _, _, _)
MergeTiles(data, all_start_points, lo, hi, all_predictions) ==
    IF lo > hi THEN all_predictions
    ELSE IF lo = hi
    THEN LET predictions ==
                 [data[lo] EXCEPT !.boxes = ShiftTile(@, all_start_points[lo])]
         IN  IF lo = 1 THEN predictions
             ELSE merge_prediction(all_predictions, predictions, merge_iou_threshold)
    ELSE LET mid == (lo + hi) \div 2
             merged == MergeTiles(data, all_start_points, lo, mid, all_predictions)
         IN  \* the pairs up to mid are merged before the next pair is taken
             IF Len(merged.boxes) = Len(merged.scores)
             THEN MergeTiles(data, all_start_points, mid + 1, hi, merged)
             ELSE merged

\* SplitRegionOperator.backward
SplitRegionBackward(data, addition) ==
    LET all_start_points == addition[1]
        start_point == addition[2]
        all_predictions ==
            MergeTiles(data, all_start_points, 1,
                       Min(Len(data), Len(all_start_points)), NoBoxes)
    IN  [all_predictions EXCEPT
             !.boxes = shift_coordinates(@, start_point[1], start_point[2])]

\* ---------------------------------------------- one call of the operator
chainVars == <<pipeline, batch_size, branchData, stack, exc, outcome, input,
               calls, history, log>>

\* ChainOperator.__call__, line `data, addition = self.forward(data)`
TileForward ==
    /\ tile.pc = "new"
    /\ LET f == SplitRegionForward(tile.width, tile.height, tile.image_size) IN
       tile' = [tile EXCEPT !.pc = "split", !.n_rows = f.n_rows,
                            !.n_cols = f.n_cols, !.canvas = f.canvas,
                            !.start_point = f.start_point,
                            !.start_points = f.start_points]
    /\ UNCHANGED <<chainVars, stage>>

\* Tile i shows the pixels [part_x, part_x + image_size) x [part_y, ...) of new_img.
Shows(i, box) ==
    /\ tile.start_points[i][1] <= box[1]
    /\ box[3] <= tile.start_points[i][1] + tile.image_size
    /\ tile.start_points[i][2] <= box[2]
    /\ box[4] <= tile.start_points[i][2] + tile.image_size

\* ChainOperator.__call__, line `data = self.next_operator(data)`: the
\* detector finds one object, a pixel of the image, in up to MaxReports of
\* the tiles that show it, and reports it in the coordinates of the tile.
TileNext ==
    /\ tile.pc = "split"
    /\ \E bx \in 0..(tile.width - 1), by \in 0..(tile.height - 1) :
         LET object == <<bx, by, bx + 1, by + 1>>
             pasted == <<bx + tile.start_point[1], by + tile.start_point[2],
                         bx + 1 + tile.start_point[1], by + 1 + tile.start_point[2]>>
             showing == {i \in 1..Len(tile.start_points) : Shows(i, pasted)}
         IN  \E reports \in {r \in SUBSET showing : Cardinality(r) \in 1..MaxReports} :
             \E score \in [reports -> Scores] :
               tile' = [tile EXCEPT
                   !.pc = "detected", !.object = object,
                   !.data = [i \in 1..Len(tile.start_points) |->
                       IF i \in reports
                       THEN [boxes |-> <<<<pasted[1] - tile.start_points[i][1],
                                           pasted[2] - tile.start_points[i][2],
                                           pasted[3] - tile.start_points[i][1],
                                           pasted[4] - tile.start_points[i][2]>>>>,
                             labels |-> <<1>>, scores |-> <<score[i]>>]
                       ELSE NoBoxes]]
    /\ UNCHANGED <<chainVars, stage>>

\* ChainOperator.__call__, line `return self.backward(data, addition)`
TileBackward ==
    /\ tile.pc = "detected"
    /\ tile' = [tile EXCEPT !.pc = "merged",
                   !.all_predictions =
                       SplitRegionBackward(tile.data,
                           <<tile.start_points, tile.start_point>>)]
    /\ UNCHANGED <<chainVars, stage>>

InitTile ==
    /\ pipeline = <<>>
    /\ batch_size = 1
    /\ InitRun
    /\ stage = NoStage
    /\ tile \in {[NoTile EXCEPT !.pc = "new", !.width = w, !.height = h,
                                !.image_size = s] :
                    w \in 1..MaxWidth, h \in 1..MaxHeight, s \in 1..MaxTile}

NextTile ==
    \/ TileForward
    \/ TileNext
    \/ TileBackward

SpecTile == InitTile /\ [][NextTile]_vars

\* ------------------------------------------------------------------ claims
\* The forward calls of evs[i..] that are still waiting for their backward,
\* given those (open) waiting after evs[1..i-1]; ok is FALSE when a backward
\* is not the one of the innermost waiting forward, or when it is not given
\* the context this forward returned.
RECURSIVE Nesting(_, _, _)
Nesting(evs, i, open) ==
    IF i > Len(evs) THEN [ok |-> TRUE, open |-> open]
    ELSE LET e == evs[i] IN
         CASE e.ev = "fwd" -> Nesting(evs, i + 1, Append(open, e))
           [] e.ev = "bwd" ->
                IF /\ open # <<>>
                   /\ open[Len(open)].op = e.op
                   /\ open[Len(open)].a = e.a
                THEN Nesting(evs, i + 1, Pop(open))
                ELSE [ok |-> FALSE, open |-> open]
           [] OTHER -> Nesting(evs, i + 1, open)

CountEv(evs, ev) == Cardinality({i \in 1..Len(evs) : evs[i].ev = ev})

\* C1 (stack discipline): in every invocation the forward and backward calls
\* are strictly nested, each backward is given the context returned by the
\* forward of the same stage that is innermost at that moment, and an
\* invocation that completes without an error has made as many backward as
\* forward calls and left no forward without its backward.
C1_StackDiscipline ==
    \A t \in Threads :
        LET m == Nesting(log[t], 1, <<>>) IN
        /\ m.ok
        /\ outcome[t].status = "ok" =>
              /\ m.open = <<>>
              /\ CountEv(log[t], "fwd") = CountEv(log[t], "bwd")

\* A completed invocation of a pipeline of full depth in which a combinator
\* ran the same stage twice, with two different contexts.
C1_Witness ==
    /\ outcome[1].status = "ok"
    /\ Len(pipeline) = MaxDepth
    /\ \E i, j \in 1..Len(log[1]) :
          /\ i < j
          /\ log[1][i].ev = "fwd" /\ log[1][j].ev = "fwd"
          /\ log[1][i].op = log[1][j].op
          /\ log[1][i].a # log[1][j].a
    /\ CountEv(log[1], "bwd") >= 3

\* What the pipeline computes, as a function of the input alone: operators
\* k.. of the pipeline applied to d, Err when a BoxHeightPredictionOperator
\* in it finds too few boxes. A BranchingOperator joins its own input.
Err == Term("error", 0, <<>>, <<>>)

RECURSIVE Flatten(_)
Flatten(ls) == IF ls = <<>> THEN <<>> ELSE Head(ls).kids \o Flatten(Tail(ls))

RECURSIVE Eval(_, _)
Eval(k, d) ==
    LET kind == KindAt(pipeline, k) IN
    CASE kind = "Final" -> d
      [] kind \in ChainKinds ->
           LET fr == ForwardOf(k, d)
               r == Eval(k + 1, fr[1])
           IN  IF r = Err THEN Err
               ELSE IF kind = "BoxHeight" /\ r.n < min_boxes_count THEN Err
               ELSE IF kind = "Branch" THEN BranchBackward(k, d, r, fr[2])
               ELSE BackwardOf(k, r, fr[2])
      [] kind = "Split" ->
           LET rs == [i \in 1..Len(d.kids) |-> Eval(k + 1, d.kids[i])] IN
           IF \E i \in 1..Len(rs) : rs[i] = Err THEN Err ELSE List(rs)
      [] kind = "Batch" ->
           LET bs == split_sequence(d.kids, batch_size)
               rs == [i \in 1..Len(bs) |-> Eval(k + 1, List(bs[i]))]
           IN  IF \E i \in 1..Len(rs) : rs[i] = Err THEN Err ELSE List(Flatten(rs))

\* The index of the last forward call of operator k before event j of evs
\* (0 when there is none). An operator is never running inside itself, so
\* this is the forward of the __call__ that makes backward call j.
LastFwd(evs, j, k) ==
    LET S == {i \in 1..(j - 1) : evs[i].ev = "fwd" /\ evs[i].op = k} IN
    IF S = {} THEN 0 ELSE CHOOSE i \in S : \A i2 \in S : i2 <= i

\* Every join function call (a BranchingOperator.backward) of thread t is given
\* the input of the forward call of the same __call__.
JoinsOwnInput(t) ==
    \A j \in 1..Len(log[t]) :
        LET e == log[t][j] IN
        (e.ev = "bwd" /\ KindAt(pipeline, e.op) = "Branch") =>
            /\ LastFwd(log[t], j, e.op) # 0
            /\ e.r.kids[1] = Pair(log[t][LastFwd(log[t], j, e.op)].d, e.d)

\* C2 (branching isolation): the join function of a BranchingOperator always
\* gets the input of the same invocation, also when several invocations of
\* the same instance are running at once.
C2_BranchingIsolation == \A t \in Threads : JoinsOwnInput(t)

\* C3 (sequential reuse): whatever invocations came before on the same
\* pipeline instance, an invocation returns what the pipeline computes from
\* its own input, fails exactly when that computation fails, and every join
\* function call in it gets the input saved in this invocation.
C3_SequentialReuse ==
    \A t \in Threads :
        /\ outcome[t].status = "ok" => outcome[t].val = Eval(1, input[t])
        /\ outcome[t].status = "NotEnoughBoxes" => Eval(1, input[t]) = Err
        /\ JoinsOwnInput(t)

\* A second invocation, after one that NotEnoughBoxes aborted, has completed
\* and has called a join function while the instance still held the first
\* invocation's input.
C3_Witness ==
    /\ calls[1] = 2
    /\ history[1] = <<"NotEnoughBoxes">>
    /\ outcome[1].status = "ok"
    /\ \E j \in 1..Len(log[1]) :
          log[1][j].ev = "bwd" /\ KindAt(pipeline, log[1][j].op) = "Branch"

\* The arguments of the next_operator calls made so far by the running
\* __call__ of combinator k in thread t.
ItemsCalled(t, k) ==
    LET evs == log[t]
        Outer == {j \in 1..Len(evs) : evs[j].ev = "item" /\ evs[j].op < k}
        from == IF Outer = {} THEN 0 ELSE CHOOSE j \in Outer : \A j2 \in Outer : j2 <= j
        Mine(e) == e.ev = "item" /\ e.op = k
        mine == SelectSeq(SubSeq(evs, from + 1, Len(evs)), Mine)
    IN  [j \in 1..Len(mine) |-> mine[j].d]

\* The number of next_operator calls frame s of thread t has made: its loop
\* counter, less one when the frame is not inside such a call.
CallsMade(t, s) ==
    IF s = Len(stack[t]) /\ ~exc[t] THEN stack[t][s].i - 1 ELSE stack[t][s].i

Prefix(xs, n) == SubSeq(xs, 1, n)

\* The frames of chain operators of thread t that have just got back the
\* result of a combinator (the next operator), with the list that combinator
\* was called on.
ReturnedFrom(t, kind) ==
    {s \in 1..Len(stack[t]) :
        /\ stack[t][s].pc = "back"
        /\ KindAt(pipeline, stack[t][s].op + 1) = kind
        /\ KindAt(pipeline, stack[t][s].op) \in ChainKinds}

ListGiven(t, s) ==
    log[t][LastFwd(log[t], Len(log[t]) + 1, stack[t][s].op)].r

\* C5 (splitting fan-out): a SplittingOperator calls the downstream pipeline
\* on its items one by one in input order, once each, its i-th result is what
\* the downstream pipeline computes from the i-th item, and it returns the
\* list of exactly these N results.
C5_SplittingFanOut ==
    \A t \in Threads :
        /\ \A s \in 1..Len(stack[t]) :
              LET f == stack[t][s] IN
              KindAt(pipeline, f.op) = "Split" =>
                 /\ CallsMade(t, s) <= Len(f.data.kids)
                 /\ ItemsCalled(t, f.op) = Prefix(f.data.kids, CallsMade(t, s))
                 /\ Len(f.results) = f.i - 1
                 /\ \A j \in 1..Len(f.results) :
                       f.results[j] = Eval(f.op + 1, f.data.kids[j])
        /\ \A s \in ReturnedFrom(t, "Split") :
              LET given == ListGiven(t, s).kids
                  got == stack[t][s].data
              IN  /\ got.tag = "list"
                  /\ Len(got.kids) = Len(given)
                  /\ \A j \in 1..Len(given) :
                        got.kids[j] = Eval(stack[t][s].op + 2, given[j])

\* A SplittingOperator has returned the results of MaxFan items that are not
\* all the same.
C5_Witness ==
    \E s \in ReturnedFrom(1, "Split") :
        /\ Len(stack[1][s].data.kids) = MaxFan
        /\ stack[1][s].data.kids[1] # stack[1][s].data.kids[MaxFan]

\* The result of running item x alone through the pipeline after operator k
\* (as a group of one).
Individually(k, x) == Eval(k + 1, List(<<x>>)).kids[1]

\* C4 (batching order and length): a BatchingOperator with batch size B cuts
\* its N items into ceil(N/B) contiguous groups in order, all of B items but
\* possibly the last, calls the downstream pipeline once per group in group
\* order, and returns N results, the j-th being the result of running item j
\* individually through the downstream pipeline.
C4_BatchingOrderLength ==
    \A t \in Threads :
        /\ \A s \in 1..Len(stack[t]) :
              LET f == stack[t][s]
                  bs == Batches(f)
                  N == Len(f.data.kids)
                  done == Flatten([g \in 1..(f.i - 1) |-> List(bs[g])])
              IN
              KindAt(pipeline, f.op) = "Batch" =>
                 /\ Len(bs) = (N + batch_size - 1) \div batch_size
                 /\ Flatten([g \in 1..Len(bs) |-> List(bs[g])]) = f.data.kids
                 /\ \A g \in 1..Len(bs) :
                       /\ Len(bs[g]) \in 1..batch_size
                       /\ g < Len(bs) => Len(bs[g]) = batch_size
                 /\ CallsMade(t, s) <= Len(bs)
                 /\ ItemsCalled(t, f.op) =
                       [g \in 1..CallsMade(t, s) |-> List(bs[g])]
                 /\ Len(f.results) = Len(done)
                 /\ \A j \in 1..Len(done) :
                       f.results[j] = Individually(f.op, f.data.kids[j])
        /\ \A s \in ReturnedFrom(t, "Batch") :
              LET given == ListGiven(t, s).kids
                  got == stack[t][s].data
              IN  /\ got.tag = "list"
                  /\ Len(got.kids) = Len(given)
                  /\ \A j \in 1..Len(given) :
                        got.kids[j] = Individually(stack[t][s].op + 1, given[j])

\* A BatchingOperator has returned the results of MaxFan items cut into more
\* than one group, the last group shorter than the batch size.
C4_Witness ==
    \E s \in ReturnedFrom(1, "Batch") :
        /\ Len(stack[1][s].data.kids) = MaxFan
        /\ batch_size > 1
        /\ MaxFan > batch_size
        /\ MaxFan % batch_size # 0
        /\ stack[1][s].data.kids[1] # stack[1][s].data.kids[MaxFan]

\* The position of the raise of thread t's invocation in its log (0: none).
RaisedAt(t) ==
    LET S == {j \in 1..Len(log[t]) : log[t][j].ev = "raise"} IN
    IF S = {} THEN 0 ELSE CHOOSE j \in S : \A j2 \in S : j <= j2

C7_InsufficientDetections ==
    \A t \in Threads :
        /\ \A j \in 1..Len(log[t]) :
              LET e == log[t][j] IN
              /\ e.ev = "raise" =>
                    /\ KindAt(pipeline, e.op) = "BoxHeight"
                    /\ e.d.n < min_boxes_count
                    /\ \A j2 \in (j + 1)..Len(log[t]) : log[t][j2].ev # "bwd"
              /\ (e.ev = "bwd" /\ KindAt(pipeline, e.op) = "BoxHeight") =>
                    /\ e.d.n >= min_boxes_count
                    /\ e.r = Term("box_height", e.d.n, <<>>, <<e.d>>)
        /\ (exc[t] /\ stack[t] # <<>>) => outcome[t] = NoOutcome
        /\ (exc[t] /\ stack[t] = <<>>) =>
              /\ outcome[t] = Failed
              /\ log[t][Len(log[t])].ev = "raise"

\* NotEnoughBoxes has reached the caller of a pipeline of three nested
\* stages: three forward calls were made and no backward has returned.
C7_Witness ==
    /\ exc[1] /\ stack[1] = <<>>
    /\ outcome[1].status = "NotEnoughBoxes"
    /\ CountEv(log[1], "fwd") = 3
    /\ CountEv(log[1], "bwd") = 0
    /\ CountEv(log[1], "item") = 0

\* --------------------------------------------------- claims on the tiling
\* The state that forward leaves: the grid and the start points are set.
IsSplit == tile.pc = "split"

Axes == {1, 2}
Dimension(axis) == IF axis = 1 THEN tile.width ELSE tile.height
Count(axis) == IF axis = 1 THEN tile.n_cols ELSE tile.n_rows
\* The start of column k (axis 1) or row k (axis 2) on the canvas.
Start(axis, k) ==
    IF axis = 1 THEN tile.start_points[k][1]
    ELSE tile.start_points[(k - 1) * tile.n_cols + 1][2]
\* What tiles k and k + 1 of an axis share.
Overlap(axis, k) == tile.image_size - (Start(axis, k + 1) - Start(axis, k))

\* Every pixel of the pasted image is shown by a tile.
Covered ==
    \A px \in tile.start_point[1]..(tile.start_point[1] + tile.width - 1),
       py \in tile.start_point[2]..(tile.start_point[2] + tile.height - 1) :
        \E i \in 1..Len(tile.start_points) : Shows(i, <<px, py, px + 1, py + 1>>)

\* Tile k + 1 of an axis starts no later than where tile k ends.
NoGaps ==
    \A axis \in Axes : \A k \in 1..(Count(axis) - 1) : Overlap(axis, k) >= 0

\* No tile reaches over an edge of new_img.
InCanvas ==
    \A i \in 1..Len(tile.start_points) : \A axis \in Axes :
        /\ tile.start_points[i][axis] >= 0
        /\ tile.start_points[i][axis] + tile.image_size <= tile.canvas[axis]

\* C8: after forward, the n_rows x n_cols tiles at the returned start points
\* cover every pixel of the region of the canvas where the image was pasted,
\* adjacent tiles leave no gap, and no tile extends beyond the canvas.
C8_TilingCoverage == IsSplit => Covered /\ NoGaps /\ InCanvas

\* The parts of C8 that forward does keep.
TilesAdjoinInCanvas == IsSplit => NoGaps /\ InCanvas

CeilDiv(a, b) == (a + b - 1) \div b

\* C9 as stated: the grid count of an axis is ceil(dimension/size + 1/2) when
\* the dimension is not a multiple of the tile size and dimension/size when
\* it is, and on an axis whose dimension is not a multiple adjacent tiles
\* overlap by at least half of image_size.
C9_AsStated ==
    IsSplit => \A axis \in Axes :
        LET d == Dimension(axis)
            s == tile.image_size
        IN  /\ Count(axis) = IF d % s = 0 THEN d \div s ELSE CeilDiv(2 * d + s, 2 * s)
            /\ d % s # 0 =>
                 \A k \in 1..(Count(axis) - 1) : 2 * Overlap(axis, k) >= s

\* C9: the grid count of an axis is 1 when the dimension is smaller than the
\* tile size and ceil(dimension/size + 1/2) otherwise (one more than
\* dimension/size when the dimension is a multiple), and adjacent tiles
\* overlap by at least floor(2 * image_size / (5 * (count - 1))) pixels,
\* which can be less than half of image_size.
C9_TilingOverlap ==
    IsSplit => \A axis \in Axes :
        LET d == Dimension(axis)
            s == tile.image_size
        IN  /\ Count(axis) = IF d < s THEN 1 ELSE CeilDiv(2 * d + s, 2 * s)
            /\ \A k \in 1..(Count(axis) - 1) :
                   Overlap(axis, k) >= (2 * s) \div (5 * (Count(axis) - 1))

\* A dimension that is not a multiple of the tile size, split in several
\* tiles of which two adjacent ones share less than half of image_size.
C9_Witness ==
    /\ IsSplit
    /\ \E axis \in Axes :
        /\ Dimension(axis) % tile.image_size # 0
        /\ \E k \in 1..(Count(axis) - 1) :
               /\ Overlap(axis, k) >= 1
               /\ 2 * Overlap(axis, k) < tile.image_size

\* The number of boxes of data[lo..hi].
RECURSIVE BoxCount(_, _, _)
BoxCount(data, lo, hi) ==
    IF lo > hi THEN 0
    ELSE IF lo = hi THEN Len(data[lo].boxes)
    ELSE BoxCount(data, lo, (lo + hi) \div 2) + BoxCount(data, (lo + hi) \div 2 + 1, hi)

\* C10: backward returns the object that the tiles reported, each in its own
\* coordinates, at the place where it lies in the original image, and it
\* returns no more boxes than the tiles reported together.
C10_FrameRestoration ==
    tile.pc = "merged" =>
        LET all == tile.all_predictions IN
        /\ Len(all.boxes) >= 1
        /\ \A i \in 1..Len(all.boxes) : all.boxes[i] = tile.object
        /\ Len(all.labels) = Len(all.boxes) /\ Len(all.scores) = Len(all.boxes)
        /\ Len(all.boxes) <= BoxCount(tile.data, 1, Len(tile.data))

\* Two tiles with different start points reported the object, the image was
\* pasted off the corner of the canvas, and backward returned the object once.
C10_Witness ==
    /\ tile.pc = "merged"
    /\ tile.start_point # <<0, 0>>
    /\ \E i, j \in 1..Len(tile.data) :
        /\ tile.data[i].boxes # <<>> /\ tile.data[j].boxes # <<>>
        /\ tile.start_points[i] # tile.start_points[j]
        /\ tile.data[i].boxes # tile.data[j].boxes
    /\ tile.all_predictions.boxes = <<tile.object>>

(***************************************************************************)
(* Part 3: the transform operators that take one image, each run alone:    *)
(* `stage` is the frame of the operator's __call__.                        *)
(***************************************************************************)

\* ------------------------------------------------------------ more floats
\* The float that Python reads from the decimal literal q[1] / q[2].
Float(q) == FDiv(q[1], q[2])

\* x >= y for floats x, y >= 0
FGeq(x, y) ==
    IF y.m = <<>> THEN TRUE
    ELSE IF x.m = <<>> THEN FALSE
    ELSE IF x.e # y.e THEN x.e > y.e
    ELSE \A i \in 1..MantissaBits :
             (\A j \in 1..(i - 1) : x.m[j] = y.m[j]) => x.m[i] >= y.m[i]

\* ---------------------------------------------- LongRectangleCropOperator
\* LongRectangleCropOperator.__init__: ratio_threshold=1.3 and another value
RatioThresholds == {<<13, 10>>, <<2, 1>>}
\* LongRectangleCropOperator.__init__: split_at=0.6 and another value
SplitAts == {<<6, 10>>, <<3, 4>>}
\* LongRectangleCropOperator.__init__: merge_iou_threshold=0.3 and another value
CropIouThresholds == {<<3, 10>>, <<1, 2>>}

\* The test that sends every image to the two halves.
TooLongAlways(long, short, ratio_threshold) == TRUE

\* forward: image.height / image.width >= self.ratio_threshold (and the
\* same with width and height exchanged)
TooLong(long, short, ratio_threshold) == FGeq(FDiv(long, short), ratio_threshold)

\* LongRectangleCropOperator.forward; an image is the box of the given image
\* that it shows, <<0, 0, width, height>> for the given image itself.
LongRectangleCropForward(width, height, ratio_threshold, split_at) ==
    IF TooLong(height, width, ratio_threshold)
    THEN LET new_height == FInt(FMul(height, split_at))
             min_y == height - new_height
         IN  [images |-> <<<<0, 0, width, new_height>>,
                           <<0, min_y, width, min_y + new_height>>>>,
              start_points |-> <<<<0, 0>>, <<0, min_y>>>>]
    ELSE IF TooLong(width, height, ratio_threshold)
    THEN LET new_width == FInt(FMul(width, split_at))
             min_x == width - new_width
         IN  [images |-> <<<<0, 0, new_width, height>>,
                           <<min_x, 0, min_x + new_width, height>>>>,
              start_points |-> <<<<0, 0>>, <<min_x, 0>>>>]
    ELSE [images |-> <<<<0, 0, width, height>>>>,
          start_points |-> <<<<0, 0>>>>]

\* The inverse that adds the box heights up and does not divide.
LongRectangleCropBackwardSum(data, all_start_points) ==
    FDiv(SumSeq([i \in 1..Min(Len(data), Len(all_start_points)) |->
                    data[i].box_height]), 1)

\* LongRectangleCropOperator.backward
LongRectangleCropBackward(data, all_start_points) ==
    LET box_heights == [i \in 1..Min(Len(data), Len(all_start_points)) |->
                           data[i].box_height]
    IN  FDiv(SumSeq(box_heights), Len(box_heights))

\* ChainOperator.__call__, line `data, addition = self.forward(data)`
CropForward ==
    /\ stage.op = "LongRectangleCrop" /\ stage.pc = "new"
    /\ LET f == LongRectangleCropForward(stage.width, stage.height,
                    Float(stage.ratio_threshold), Float(stage.split_at)) IN
       stage' = [stage EXCEPT !.pc = "split", !.images = f.images,
                              !.start_points = f.start_points]
    /\ UNCHANGED <<chainVars, tile>>

\* What the detector may report for one image: some boxes and a box_height.
HalfResults ==
    {[boxes |-> b, box_height |-> h] :
        b \in {<<>>, <<<<0, 0, 1, 1>>>>}, h \in 1..MaxBoxHeight}

\* ChainOperator.__call__, line `data = self.next_operator(data)`: one
\* result per image that forward returned (a SplittingOperator).
CropNext ==
    /\ stage.op = "LongRectangleCrop" /\ stage.pc = "split"
    /\ \E data \in [1..Len(stage.images) -> HalfResults] :
           stage' = [stage EXCEPT !.pc = "detected", !.data = data]
    /\ UNCHANGED <<chainVars, tile>>

\* ChainOperator.__call__, line `return self.backward(data, addition)`
CropBackward ==
    /\ stage.op = "LongRectangleCrop" /\ stage.pc = "detected"
    /\ stage' = [stage EXCEPT !.pc = "merged",
                    !.result = LongRectangleCropBackward(stage.data, stage.start_points)]
    /\ UNCHANGED <<chainVars, tile>>

\* The chain of Part 1 and the tiling of Part 2 are not running.
OthersIdle ==
    /\ pipeline = <<>>
    /\ batch_size = 1
    /\ InitRun
    /\ tile = NoTile

InitCrop ==
    /\ OthersIdle
    /\ stage \in {[op |-> "LongRectangleCrop", pc |-> "new", width |-> w,
                   height |-> h, ratio_threshold |-> r, split_at |-> s,
                   merge_iou_threshold |-> u, images |-> <<>>,
                   start_points |-> <<>>, data |-> <<>>, result |-> FZero] :
                     w \in 1..MaxCropSide, h \in 1..MaxCropSide,
                     r \in RatioThresholds, s \in SplitAts,
                     u \in CropIouThresholds}

NextCrop ==
    \/ CropForward
    \/ CropNext
    \/ CropBackward

SpecCrop == InitCrop /\ [][NextCrop]_vars

\* ------------------------------------- claims on LongRectangleCropOperator
IsCrop(pc) == stage.op = "LongRectangleCrop" /\ stage.pc = pc

\* a / b >= q[1] / q[2], in exact arithmetic
RatioAtLeast(a, b, q) == q[2] * a >= q[1] * b

\* C11: an image whose height/width and width/height are both below
\* ratio_threshold comes back from forward as the only image, unchanged,
\* with the only offset (0, 0).
C11_CropNoOp ==
    ( /\ IsCrop("split")
      /\ ~ RatioAtLeast(stage.height, stage.width, stage.ratio_threshold)
      /\ ~ RatioAtLeast(stage.width, stage.height, stage.ratio_threshold) )
    => /\ stage.images = <<<<0, 0, stage.width, stage.height>>>>
       /\ stage.start_points = <<<<0, 0>>>>

\* forward was given an image that is not square and not too long.
C11_Witness ==
    /\ IsCrop("split")
    /\ stage.width # stage.height
    /\ ~ RatioAtLeast(stage.height, stage.width, stage.ratio_threshold)
    /\ ~ RatioAtLeast(stage.width, stage.height, stage.ratio_threshold)
    /\ Len(stage.images) = 1

\* The two crops of an image of length long on its long axis and length
\* short on the other, as <<from, to>> on the long axis: both
\* floor(split_at * long) long, one at each end, sharing the middle.
TwoHalves(first, second, long, split_at) ==
    LET length == (split_at[1] * long) \div split_at[2] IN
    /\ first = <<0, length>>
    /\ second = <<long - length, long>>
    /\ second[1] < first[2]

\* C12: an image whose long-axis ratio is at least ratio_threshold comes back
\* from forward as two crops along the long axis, each floor(split_at * L)
\* long and of full extent on the other axis, at offsets 0 and
\* L - floor(split_at * L) of the long axis, and the two crops overlap; a
\* 2000 x 500 image with split_at = 0.6 gives two 1200 x 500 images at (0, 0)
\* and (800, 0).
C12_CropSplit ==
    IsCrop("split") =>
        LET im == stage.images
            sp == stage.start_points
            w == stage.width
            h == stage.height
        IN
        /\ RatioAtLeast(h, w, stage.ratio_threshold) =>
            /\ Len(im) = 2 /\ Len(sp) = 2
            /\ \A i \in 1..2 : im[i][1] = 0 /\ im[i][3] = w
                                /\ sp[i] = <<im[i][1], im[i][2]>>
            /\ TwoHalves(<<im[1][2], im[1][4]>>, <<im[2][2], im[2][4]>>, h,
                         stage.split_at)
        /\ RatioAtLeast(w, h, stage.ratio_threshold) =>
            /\ Len(im) = 2 /\ Len(sp) = 2
            /\ \A i \in 1..2 : im[i][2] = 0 /\ im[i][4] = h
                                /\ sp[i] = <<im[i][1], im[i][2]>>
            /\ TwoHalves(<<im[1][1], im[1][3]>>, <<im[2][1], im[2][3]>>, w,
                         stage.split_at)
        /\ LongRectangleCropForward(2000, 500, Float(<<13, 10>>), Float(<<6, 10>>))
               = [images |-> <<<<0, 0, 1200, 500>>, <<800, 0, 2000, 500>>>>,
                  start_points |-> <<<<0, 0>>, <<800, 0>>>>]

\* C12 without the overlap: the number, the lengths and the offsets of the
\* crops are as stated.
CropSplitPlacement ==
    IsCrop("split") =>
        LET im == stage.images
            length(long) == (stage.split_at[1] * long) \div stage.split_at[2]
        IN
        /\ RatioAtLeast(stage.height, stage.width, stage.ratio_threshold) =>
               im = <<<<0, 0, stage.width, length(stage.height)>>,
                      <<0, stage.height - length(stage.height), stage.width,
                        stage.height>>>>
        /\ RatioAtLeast(stage.width, stage.height, stage.ratio_threshold) =>
               im = <<<<0, 0, length(stage.width), stage.height>>,
                      <<stage.width - length(stage.width), 0, stage.width,
                        stage.height>>>>

\* C16: backward returns the arithmetic mean of the box_height of the one or
\* two results, one per half that forward produced: the number of halves
\* times the result is the sum of the box heights, whatever
\* merge_iou_threshold, the start points and the boxes are.
C16_CropAveraging ==
    IsCrop("merged") =>
        LET n == Len(stage.images) IN
        /\ n \in {1, 2} /\ Len(stage.data) = n
        /\ FMul(n, stage.result)
               = Float(<<SumSeq([i \in 1..n |-> stage.data[i].box_height]), 1>>)

\* Two halves, one with boxes and one without, whose box heights differ by
\* an odd number.
C16_Witness ==
    /\ IsCrop("merged")
    /\ Len(stage.data) = 2
    /\ stage.data[1].boxes # stage.data[2].boxes
    /\ (stage.data[1].box_height + stage.data[2].box_height) % 2 = 1
    /\ stage.start_points[1] # stage.start_points[2]
    /\ FCeil(stage.result) # FInt(stage.result)

\* ---------------------------------------------------- PaddingImageOperator
\* The boxes with corners on the pixel grid of a width x height image.
BoxesIn(width, height) ==
    {b \in (0..(width - 1)) \X (0..(height - 1)) \X (1..width) \X (1..height) :
        b[1] < b[3] /\ b[2] < b[4]}

\* A box set lists its boxes in one order, here by corner.
BoxRank(b) == ((b[1] * 64 + b[2]) * 64 + b[3]) * 64 + b[4]

BoxSets(width, height) ==
    {s \in UNION {[1..k -> BoxesIn(width, height)] : k \in 0..MaxBoxes} :
        \A i \in 1..(Len(s) - 1) : BoxRank(s[i]) < BoxRank(s[i + 1])}

\* The prediction with these boxes, all of label 1 and score 1.
Prediction(boxes) ==
    [boxes |-> boxes, labels |-> [i \in 1..Len(boxes) |-> 1],
     scores |-> [i \in 1..Len(boxes) |-> 1]]

\* PaddingImageOperator.forward: the size of result, the point where the
\* image is pasted and the addition (left, top).
PaddingForward(width, height, padding_size) ==
    LET right == padding_size
        left == padding_size
        top == padding_size
        bottom == padding_size
    IN  [size |-> <<width + right + left, height + top + bottom>>,
         pasted |-> <<left, top>>,
         addition |-> <<left, top>>]

\* The inverse that leaves the boxes where they are.
PaddingBackwardUnshifted(prediction, start_point) == prediction

\* PaddingImageOperator.backward
PaddingBackward(prediction, start_point) ==
    [prediction EXCEPT
        !.boxes = shift_coordinates(@, start_point[1], start_point[2])]

\* ChainOperator.__call__, line `data, addition = self.forward(data)`
PadForward ==
    /\ stage.op = "Padding" /\ stage.pc = "new"
    /\ LET f == PaddingForward(stage.width, stage.height, stage.padding_size) IN
       stage' = [stage EXCEPT !.pc = "padded", !.size = f.size,
                              !.pasted = f.pasted, !.start_point = f.addition]
    /\ UNCHANGED <<chainVars, tile>>

\* The boxes seen in an image into which their image is pasted at point.
Pasted(boxes, point) ==
    [i \in 1..Len(boxes) |->
        <<boxes[i][1] + point[1], boxes[i][2] + point[2],
          boxes[i][3] + point[1], boxes[i][4] + point[2]>>]

\* ChainOperator.__call__, line `data = self.next_operator(data)`: the
\* detector reports a box set of the image, where it lies in the padded image.
PadNext ==
    /\ stage.op = "Padding" /\ stage.pc = "padded"
    /\ \E boxes \in BoxSets(stage.width, stage.height) :
           stage' = [stage EXCEPT !.pc = "detected", !.boxes = boxes,
                        !.data = Prediction(Pasted(boxes, stage.pasted))]
    /\ UNCHANGED <<chainVars, tile>>

\* ChainOperator.__call__, line `return self.backward(data, addition)`
PadBackward ==
    /\ stage.op = "Padding" /\ stage.pc = "detected"
    /\ stage' = [stage EXCEPT !.pc = "restored",
                    !.result = PaddingBackward(stage.data, stage.start_point)]
    /\ UNCHANGED <<chainVars, tile>>

InitPadding ==
    /\ OthersIdle
    /\ stage \in {[op |-> "Padding", pc |-> "new", width |-> w, height |-> h,
                   padding_size |-> p, size |-> <<0, 0>>, pasted |-> <<0, 0>>,
                   start_point |-> <<0, 0>>, boxes |-> <<>>, data |-> NoBoxes,
                   result |-> NoBoxes] :
                     w \in 1..MaxPadSide, h \in 1..MaxPadSide, p \in 0..MaxPadding}

NextPadding ==
    \/ PadForward
    \/ PadNext
    \/ PadBackward

SpecPadding == InitPadding /\ [][NextPadding]_vars

\* ------------------------------------------ claims on PaddingImageOperator
IsPadding(pc) == stage.op = "Padding" /\ stage.pc = pc

\* C13: the padded image is (width + 2p) x (height + 2p) with the image at
\* (p, p), and backward, given the boxes of the image as they lie in the
\* padded image and the addition of forward, returns the boxes as they lie
\* in the image.
C13_PaddingRoundTrip ==
    /\ ~ IsPadding("new") /\ stage.op = "Padding" =>
        /\ stage.size = <<stage.width + 2 * stage.padding_size,
                          stage.height + 2 * stage.padding_size>>
        /\ stage.pasted = <<stage.padding_size, stage.padding_size>>
        /\ stage.start_point = <<stage.padding_size, stage.padding_size>>
    /\ IsPadding("restored") =>
        /\ stage.result.boxes = stage.boxes
        /\ stage.result.labels = stage.data.labels
        /\ stage.result.scores = stage.data.scores

\* backward has restored two boxes from an image padded by p > 0.
C13_Witness ==
    /\ IsPadding("restored")
    /\ stage.padding_size > 0
    /\ Len(stage.boxes) = 2
    /\ stage.data.boxes # stage.boxes
    /\ stage.result.boxes = stage.boxes

\* --------------------------------------------------- ResizingImageOperator
\* Division of a float by a float: the significands are divided as numbers
\* of BigLimbs limbs of LimbBits bits each, most significant limb first.
BigLimbs == 5

\* The limbs as a tuple of numbers.
Limbs(f) == SubSeq(f, 1, BigLimbs)

\* The number with these bits (at most BigLimbs * LimbBits of them).
BigOf(bits) ==
    LET pad == BigLimbs * LimbBits - Len(bits)
        all == [i \in 1..pad |-> 0] \o bits
    IN  Limbs([k \in 1..BigLimbs |->
                  BitsInt(SubSeq(all, LimbBits * (k - 1) + 1, LimbBits * k))])

\* a < b
BigLess(a, b) ==
    \E i \in 1..BigLimbs : a[i] < b[i] /\ \A j \in 1..(i - 1) : a[j] = b[j]

\* a - b, for a >= b
BigSub(a, b) ==
    Limbs([i \in 1..BigLimbs |->
        LET borrow == IF \E j \in (i + 1)..BigLimbs :
                             a[j] < b[j] /\ \A k \in (i + 1)..(j - 1) : a[k] = b[k]
                      THEN 1 ELSE 0
        IN  (a[i] - b[i] - borrow + 2^LimbBits) % 2^LimbBits])

\* 2 * a
BigDouble(a) ==
    Limbs([i \in 1..BigLimbs |->
        (2 * a[i] + (IF i < BigLimbs /\ a[i + 1] >= 2^(LimbBits - 1) THEN 1 ELSE 0))
            % 2^LimbBits])

\* The next cnt bits of the binary expansion of r / b (0 <= r < b), and the
\* remainder left.
RECURSIVE DivBits(_, _, _)
DivBits(r, b, cnt) ==
    IF cnt = 0 THEN [bits |-> <<>>, r |-> r]
    ELSE LET d == BigDouble(r)
             bit == IF BigLess(d, b) THEN 0 ELSE 1
             rest == DivBits(IF bit = 1 THEN BigSub(d, b) ELSE d, b, cnt - 1)
         IN  [bits |-> <<bit>> \o rest.bits, r |-> rest.r]

\* The next cnt * BigLimbs bits of the binary expansion of r / b.
RECURSIVE DivLimbs(_, _, _)
DivLimbs(r, b, cnt) ==
    IF cnt = 0 THEN [bits |-> <<>>, r |-> r]
    ELSE LET first == DivBits(r, b, BigLimbs)
             rest == DivLimbs(first.r, b, cnt - 1)
         IN  [bits |-> first.bits \o rest.bits, r |-> rest.r]

\* x / y for floats x >= 0 and y > 0
FDivF(x, y) ==
    IF x.m = <<>> THEN FZero
    ELSE LET a == BigOf(x.m)
             b == BigOf(y.m)
             one == IF BigLess(a, b) THEN 0 ELSE 1
             fb == DivLimbs(IF one = 1 THEN BigSub(a, b) ELSE a, b, 11)
         IN  FRound(StripZeros(<<one>> \o fb.bits), x.e - y.e - 11 * BigLimbs,
                    \E i \in 1..BigLimbs : fb.r[i] # 0)

\* ResizingImageOperator.forward: the size of resized_img and the addition
\* (factor_w, factor_h).
ResizingForward(width, height, image_max_size) ==
    LET factor == IF height > width THEN FDiv(image_max_size, height)
                  ELSE FDiv(image_max_size, width)
        resized_w == FInt(FMul(width, factor))
        resized_h == FInt(FMul(height, factor))
    IN  [size |-> <<resized_w, resized_h>>,
         addition |-> <<FDiv(resized_w, width), FDiv(resized_h, height)>>]

\* ResizingImageOperator.backward; the coordinates and box_height are floats.
ResizingBackward(prediction, factor) ==
    LET factor_w == factor[1]
        factor_h == factor[2]
    IN  [boxes |-> [i \in 1..Len(prediction.boxes) |->
                       <<FDivF(prediction.boxes[i][1], factor_w),
                         FDivF(prediction.boxes[i][2], factor_h),
                         FDivF(prediction.boxes[i][3], factor_w),
                         FDivF(prediction.boxes[i][4], factor_h)>>],
         box_height |-> FDivF(prediction.box_height, factor_h)]

NoHeights == [boxes |-> <<>>, box_height |-> FZero]

\* ChainOperator.__call__, line `data, addition = self.forward(data)`; an
\* image has no side of 0 pixels, the call ends when resized_img would.
ResizeForward ==
    /\ stage.op = "Resizing" /\ stage.pc = "new"
    /\ LET f == ResizingForward(stage.width, stage.height, stage.image_max_size) IN
       stage' = [stage EXCEPT
                    !.pc = IF 0 \in {f.size[1], f.size[2]} THEN "failed" ELSE "resized",
                    !.size = f.size, !.factor = f.addition]
    /\ UNCHANGED <<chainVars, tile>>

\* ChainOperator.__call__, line `data = self.next_operator(data)`: the
\* detector reports one box of the image, from its corner (0, 0) to (x, y),
\* and the height of this box, both scaled by the ratios of the addition.
ResizeNext ==
    /\ stage.op = "Resizing" /\ stage.pc = "resized"
    /\ \E x \in 1..stage.width, y \in 1..stage.height :
           stage' = [stage EXCEPT
               !.pc = "detected", !.box = <<0, 0, x, y>>,
               !.data = [boxes |-> <<<<FZero, FZero, FMul(x, stage.factor[1]),
                                       FMul(y, stage.factor[2])>>>>,
                         box_height |-> FMul(y, stage.factor[2])]]
    /\ UNCHANGED <<chainVars, tile>>

\* ChainOperator.__call__, line `return self.backward(data, addition)`
ResizeBackward ==
    /\ stage.op = "Resizing" /\ stage.pc = "detected"
    /\ stage' = [stage EXCEPT !.pc = "restored",
                    !.result = ResizingBackward(stage.data, stage.factor)]
    /\ UNCHANGED <<chainVars, tile>>

InitResizing ==
    /\ OthersIdle
    /\ stage \in {[op |-> "Resizing", pc |-> "new", width |-> w, height |-> h,
                   image_max_size |-> s, size |-> <<0, 0>>,
                   factor |-> <<FZero, FZero>>, box |-> <<0, 0, 0, 0>>,
                   data |-> NoHeights, result |-> NoHeights] :
                     w \in 1..MaxResizeWidth, h \in 1..MaxResizeHeight,
                     s \in 1..MaxImageSize}

NextResizing ==
    \/ ResizeForward
    \/ ResizeNext
    \/ ResizeBackward

SpecResizing == InitResizing /\ [][NextResizing]_vars

\* ----------------------------------------- claims on ResizingImageOperator
IsResizing(pc) == stage.op = "Resizing" /\ stage.pc = pc

\* The addition of forward is the ratio of resized to original size on each axis.
ResizingContext ==
    stage.op = "Resizing" /\ stage.pc # "new" =>
        stage.factor = <<Float(<<stage.size[1], stage.width>>),
                         Float(<<stage.size[2], stage.height>>)>>

\* The box and the box height that backward returns are those of the image.
ResizingRestored ==
    IsResizing("restored") =>
        /\ stage.result.boxes =
               <<<<FZero, FZero, Float(<<stage.box[3], 1>>), Float(<<stage.box[4], 1>>)>>>>
        /\ stage.result.box_height = Float(<<stage.box[4], 1>>)

\* C14: forward makes the longer side of the image image_max_size long and
\* returns the ratios of resized to original size, and backward, given a box
\* set scaled by these ratios, returns the original coordinates and box
\* height.
C14_ResizingRoundTrip ==
    /\ stage.op = "Resizing" /\ stage.pc # "new" =>
           Max(stage.size[1], stage.size[2]) = stage.image_max_size
    /\ ResizingContext
    /\ ResizingRestored

\* --------------------------- the merge of SplitRegionOperator.backward
\* SplitRegionOperator.__init__: merge_iou_threshold, 0.3 and other values
\* below 1
MergeThresholds == {<<0, 1>>, <<3, 10>>, <<1, 2>>, <<9, 10>>}

\* The detection sets in a frame of width x height pixels.
DetectionSets(width, height) ==
    UNION {{[boxes |-> b, labels |-> [i \in 1..Len(b) |-> 1], scores |-> s] :
               s \in [1..Len(b) -> Scores]} :
           b \in BoxSets(width, height)}

\* The step that keeps every box of both sets.
MergeStepAppend(all_predictions, predictions, iou_threshold) ==
    [boxes |-> all_predictions.boxes \o predictions.boxes,
     labels |-> all_predictions.labels \o predictions.labels,
     scores |-> all_predictions.scores \o predictions.scores]

\* backward: all_predictions = merge_prediction(all_predictions, predictions,
\* iou_threshold=self.merge_iou_threshold, additional_keys=('labels', 'scores'))
MergeStep(all_predictions, predictions, iou_threshold) ==
    merge_prediction(all_predictions, predictions, iou_threshold)

\* backward, the first pair of the loop: all_predictions = predictions
MergeFirst ==
    /\ stage.op = "merge" /\ stage.pc = "new"
    /\ stage' = [stage EXCEPT !.pc = "first", !.all_predictions = stage.data[1]]
    /\ UNCHANGED <<chainVars, tile>>

\* backward, the second pair of the loop
MergeSecond ==
    /\ stage.op = "merge" /\ stage.pc = "first"
    /\ stage' = [stage EXCEPT !.pc = "merged",
                    !.all_predictions =
                        MergeStep(stage.all_predictions, stage.data[2],
                                  stage.merge_iou_threshold)]
    /\ UNCHANGED <<chainVars, tile>>

\* Two tiles have given the same detection set, in the same frame.
InitMerge ==
    /\ OthersIdle
    /\ stage \in {[op |-> "merge", pc |-> "new", merge_iou_threshold |-> u,
                   data |-> <<d, d>>, all_predictions |-> NoBoxes] :
                     u \in MergeThresholds,
                     d \in DetectionSets(MaxMergeWidth, MaxMergeHeight)}

NextMerge ==
    \/ MergeFirst
    \/ MergeSecond

SpecMerge == InitMerge /\ [][NextMerge]_vars

\* ------------------------------------------------- claims on the merge
IsMerged == stage.op = "merge" /\ stage.pc = "merged"

Apart(d, iou_threshold) ==
    \A i, j \in 1..Len(d.boxes) :
        i # j => ~ IoUExceeds(d.boxes[i], d.boxes[j], iou_threshold)

====
